---- MODULE Spec2Model ----
(***************************************************************************)
(* Model of the ClickHouse compression dashboard:                          *)
(*   settings.py                 the Settings object built at import time   *)
(*   clickhouse_admin_panel.py   create_clickhouse_client, make_queries,    *)
(*                               extract, transform, run                    *)
(*                                                                         *)
(* Text is modelled as a sequence of tokens.  A token is one character     *)
(* that the code treats specially (quote, backslash, newline, tab,         *)
(* semicolon, a letter of a table name) or one chunk of fixed SQL text     *)
(* that contains none of those characters.                                 *)
(***************************************************************************)
EXTENDS Integers, Sequences, FiniteSets

VARIABLES
    pc,               \* position of the script
    env,              \* the environment / .env values the Settings fields read
    getClientCalls,   \* number of clickhouse_connect.get_client calls
    client,           \* "none" or "open"
    catalog,          \* system.tables of database 'default': table names, in enumeration order
    parts,            \* system.parts: table name -> <<compressed bytes, uncompressed bytes>>
    partsChanged,     \* system.parts was modified while extract was running
    calls,            \* the database calls made on the client, in order
    errors,           \* st.error messages, by the stage that emitted them
    failedStage,      \* the stage whose call raised, "none" while none did
    logical_queries,  \* make_queries' first result
    physical_queries, \* make_queries' second result
    li,               \* logical statements completed by extract
    pj,               \* physical statements completed by extract
    logical,          \* extract's logical accumulator
    physical,         \* extract's physical accumulator
    transformCalled,  \* transform(logical, physical) was entered
    df1,              \* logical report table (rows in order)
    df2,              \* physical report table (rows in order)
    options,          \* the multiselect's options
    table_filter,     \* the multiselect's value
    displayed         \* the data frames given to st.dataframe, in order

vars == <<pc, env, getClientCalls, client, catalog, parts, partsChanged, calls,
          errors, failedStage, logical_queries, physical_queries, li, pj,
          logical, physical, transformCalled, df1, df2, options, table_filter,
          displayed>>

\* The largest number of tables of database 'default' explored.
MaxTables == 3

----------------------------------------------------------------------------
(* Characters the code treats specially *)

QUOTE == "'"
BACKSLASH == "\\"
NEWLINE == "\n"
TAB == "\t"
SEMI == ";"

(* Plain text helpers (Python str methods, by what they do) *)

RECURSIVE Concat(_)
Concat(seqs) ==
    IF seqs = <<>> THEN <<>> ELSE Head(seqs) \o Concat(Tail(seqs))

Range(s) == {s[i] : i \in 1..Len(s)}

\* str.split(sep) for a one-character separator: k separators give k+1 segments
RECURSIVE SplitFrom(_, _, _, _)
SplitFrom(s, sep, i, cur) ==
    IF i > Len(s) THEN <<cur>>
    ELSE IF s[i] = sep THEN <<cur>> \o SplitFrom(s, sep, i + 1, <<>>)
    ELSE SplitFrom(s, sep, i + 1, Append(cur, s[i]))

Split(s, sep) == SplitFrom(s, sep, 1, <<>>)

\* str.replace("\\'", "'"): left to right, non-overlapping
RECURSIVE ReplaceEscapedQuoteFrom(_, _)
ReplaceEscapedQuoteFrom(s, i) ==
    IF i > Len(s) THEN <<>>
    ELSE IF i < Len(s) /\ s[i] = BACKSLASH /\ s[i + 1] = QUOTE
         THEN <<QUOTE>> \o ReplaceEscapedQuoteFrom(s, i + 2)
         ELSE <<s[i]>> \o ReplaceEscapedQuoteFrom(s, i + 1)

ReplaceEscapedQuote(s) == ReplaceEscapedQuoteFrom(s, 1)

\* str.replace("\n", "")
RemoveNewlines(s) == SelectSeq(s, LAMBDA ch : ch # NEWLINE)

\* list[:-1]
AllButLast(list) == SubSeq(list, 1, Len(list) - 1)

----------------------------------------------------------------------------
(* settings.py *)

Fields == {"clickhouse_base_url", "clickhouse_batch_size",
           "clickhouse_compression_protocol", "clickhouse_password",
           "clickhouse_port", "clickhouse_user"}

\* the annotated type of each field of class Settings
FieldType(f) ==
    IF f \in {"clickhouse_batch_size", "clickhouse_port"} THEN "int" ELSE "str"

\* What the environment holds for a field: nothing, a string that is no
\* integer literal, or an integer literal.
EnvValues == {"missing", "text", "digits"}

\* The environments explored: str fields missing or text, int fields any of the three.
Environments ==
    {e \in [Fields -> EnvValues] :
        \A f \in Fields : FieldType(f) = "str" => e[f] # "digits"}

\* a faulty variant: the int annotation does not reject a non-integer string
FieldValidatesLax(f, v) == v # "missing"

\* pydantic's validation of one field, no default declared
FieldValidates(f, v) ==
    /\ v # "missing"
    /\ FieldType(f) = "int" => v = "digits"

\* settings = Settings()
SettingsValidate(e) == \A f \in Fields : FieldValidates(f, e[f])

----------------------------------------------------------------------------
(* The database: table names and the two introspection statements *)

\* Table names, as sequences of characters.
NamePool ==
    { <<"a">>, <<"b">>, <<"c">>,
      <<"a", "M", "V">>, <<"b", "m", "v">>, <<"c", "M", "v">>,
      <<"a", SEMI, "b">>, <<"a", QUOTE, "b">> }

IsInjective(s) == \A i, j \in 1..Len(s) : s[i] = s[j] => i = j

\* The catalogs explored: distinct names in any enumeration order.
Catalogs ==
    UNION { {s \in [1..n -> NamePool] : IsInjective(s)} : n \in 0..MaxTables }

Lower(ch) == IF ch = "M" THEN "m" ELSE IF ch = "V" THEN "v" ELSE ch

\* name ILIKE '%MV'
NameILikeMV(name) ==
    /\ Len(name) >= 2
    /\ Lower(name[Len(name) - 1]) = "m"
    /\ Lower(name[Len(name)]) = "v"

\* WITH user_tables AS (SELECT DISTINCT name ... AND name NOT ILIKE '%MV')
user_tables(cat) == SelectSeq(cat, LAMBDA name : ~NameILikeMV(name))

\* The fixed text of the two generated statements (identifier back-quotes left out:
\* a chunk is one opaque token and holds no character the code looks for).
LogicalColumns ==
    " AS Table, SUM(Event Count) AS Event Count, COUNT(*) AS Row Count, (Row Count / Event Count) AS Ratio, ((1 - (Row Count / Event Count)) * 100) AS Logical CompressionFROM default."

PhysicalColumns ==
    " AS Table, formatReadableSize(SUM(data_compressed_bytes)) AS Compressed Size, formatReadableSize(SUM(data_uncompressed_bytes)) AS Uncompressed Size, (SUM(data_compressed_bytes) / SUM(data_uncompressed_bytes)) AS Ratio, ((1 - (SUM(data_compressed_bytes) / SUM(data_uncompressed_bytes))) * 100) AS Physical CompressionFROM system.parts"

\* a faulty variant: the generated text lacks its terminating ';'
LogicalSqlUnterminated(name) ==
    <<"SELECT ", QUOTE>> \o name \o <<QUOTE, LogicalColumns>> \o name

\* generated_sql of the logical introspection statement, for one table
LogicalSql(name) ==
    <<"SELECT ", QUOTE>> \o name \o <<QUOTE, LogicalColumns>> \o name \o <<SEMI>>

\* generated_sql of the physical introspection statement, for one table
PhysicalSql(name) ==
    <<"SELECT ", QUOTE>> \o name \o <<QUOTE, PhysicalColumns, SEMI>>

\* One value in the TabSeparated format the driver's command reads:
\* backslash, quote, newline and tab are written backslash-escaped.
RECURSIVE TsvEscape(_)
TsvEscape(s) ==
    IF s = <<>> THEN <<>>
    ELSE (CASE Head(s) = BACKSLASH -> <<BACKSLASH, BACKSLASH>>
            [] Head(s) = QUOTE     -> <<BACKSLASH, QUOTE>>
            [] Head(s) = NEWLINE   -> <<BACKSLASH, "n">>
            [] Head(s) = TAB       -> <<BACKSLASH, "t">>
            [] OTHER               -> <<Head(s)>>) \o TsvEscape(Tail(s))

\* The response body of an introspection statement: one line per row.
ResponseData(rows) ==
    Concat([i \in 1..Len(rows) |-> TsvEscape(rows[i]) \o <<NEWLINE>>])

LogicalIntrospection(cat) ==
    ResponseData([i \in 1..Len(user_tables(cat)) |-> LogicalSql(user_tables(cat)[i])])

PhysicalIntrospection(cat) ==
    ResponseData([i \in 1..Len(user_tables(cat)) |-> PhysicalSql(user_tables(cat)[i])])

\* What client.command returns for a response body.  A non-empty body is
\* stripped of its last character and split on tabs: one field gives a str,
\* several a list (a lone integer literal would come back as an int; the
\* generated text never is one).  An empty body gives, by driver version,
\* '' or a QuerySummary object.
CommandResults(data) ==
    IF data = <<>>
    THEN { [kind |-> "str", text |-> <<>>], [kind |-> "summary", text |-> <<>>] }
    ELSE IF Len(Split(AllButLast(data), TAB)) = 1
         THEN { [kind |-> "str", text |-> AllButLast(data)] }
         ELSE { [kind |-> "list", text |-> <<>>] }

\* result.replace("\\'", "'").replace("\n", "").split(";")
PostProcess(text) == Split(RemoveNewlines(ReplaceEscapedQuote(text)), SEMI)

----------------------------------------------------------------------------
(* The database: executing one generated statement *)

PartTables == { <<"a">>, <<"b">> }

\* The contents of system.parts explored: bytes per table, <<compressed, uncompressed>>.
PartsStates ==
    { [t \in PartTables |-> IF t = <<"a">> THEN <<1, 2>> ELSE <<1, 4>>],
      [t \in PartTables |-> IF t = <<"a">> THEN <<3, 4>> ELSE <<1, 4>>] }

\* the position of the quote that closes the literal opened at position 2, 0 if none
ClosingQuote(q) ==
    IF \E k \in 3..Len(q) : q[k] = QUOTE
    THEN CHOOSE k \in 3..Len(q) : q[k] = QUOTE /\ \A m \in 3..(k - 1) : q[m] # QUOTE
    ELSE 0

OpensWithLiteral(q) ==
    /\ Len(q) >= 4
    /\ q[1] = "SELECT "
    /\ q[2] = QUOTE
    /\ ClosingQuote(q) # 0
    /\ ClosingQuote(q) < Len(q)

\* the text between the quotes of SELECT '...' AS Table
StatementLiteral(q) == SubSeq(q, 3, ClosingQuote(q) - 1)

\* the table a logical statement reads: the text after FROM default.
StatementSource(q) == SubSeq(q, ClosingQuote(q) + 2, Len(q))

\* How the server reads a statement: an aggregate over one table of
\* 'default', an aggregate over system.parts, or text it rejects.
StatementKind(q, cat) ==
    IF ~OpensWithLiteral(q) THEN "rejected"
    ELSE IF /\ q[ClosingQuote(q) + 1] = LogicalColumns
            /\ StatementSource(q) \in Range(cat)
         THEN "logical"
    ELSE IF /\ q[ClosingQuote(q) + 1] = PhysicalColumns
            /\ ClosingQuote(q) + 1 = Len(q)
         THEN "physical"
    ELSE "rejected"

\* SUM(data_compressed_bytes), SUM(data_uncompressed_bytes) over the rows a statement reads
PartsTotal(p) ==
    << p[<<"a">>][1] + p[<<"b">>][1], p[<<"a">>][2] + p[<<"b">>][2] >>

\* the one row of a logical statement: aggregates over the table after FROM default.
LogicalRow(q) == [Table |-> StatementLiteral(q), Over |-> StatementSource(q)]

\* a faulty variant: the statement restricts system.parts to the table it names
PhysicalRowPerTable(q, p) ==
    LET t == IF StatementLiteral(q) \in DOMAIN p THEN p[StatementLiteral(q)] ELSE <<0, 0>>
    IN [Table |-> StatementLiteral(q),
        CompressedSize |-> t[1],
        UncompressedSize |-> t[2],
        Ratio |-> <<t[1], t[2]>>,
        PhysicalCompression |-> <<t[2] - t[1], t[2]>>]

\* the one row of a physical statement: aggregates over all of system.parts
\* (Ratio and Physical Compression kept as <<numerator, denominator>>)
PhysicalRow(q, p) ==
    LET t == PartsTotal(p)
    IN [Table |-> StatementLiteral(q),
        CompressedSize |-> t[1],
        UncompressedSize |-> t[2],
        Ratio |-> <<t[1], t[2]>>,
        PhysicalCompression |-> <<t[2] - t[1], t[2]>>]

\* client.query(query).result_set: the server rejects text that is no
\* statement; a statement gives its one row, or fails at run time (a column
\* the table lacks, a timeout, the connection lost).
QueryOutcomes(q, cat, p) ==
    { [raised |-> TRUE, rows |-> <<>>] } \cup
    (CASE StatementKind(q, cat) = "logical" ->
              { [raised |-> FALSE, rows |-> <<LogicalRow(q)>>] }
       [] StatementKind(q, cat) = "physical" ->
              { [raised |-> FALSE, rows |-> <<PhysicalRow(q, p)>>] }
       [] OTHER -> {})

CommandCall(which) == [op |-> "command", arg |-> <<which>>]
QueryCall(q) == [op |-> "query", arg |-> q]

\* DataFrame.filter(pl.col("Table").is_in(selection))
FilterIsIn(df, selection) == SelectSeq(df, LAMBDA row : row.Table \in selection)

\* df["Table"].unique().to_list()
UniqueTables(df) == {df[i].Table : i \in 1..Len(df)}

----------------------------------------------------------------------------
(* The script *)

Init ==
    /\ pc = "import"
    /\ env \in Environments
    /\ getClientCalls = 0
    /\ client = "none"
    /\ catalog = <<>>
    /\ parts \in PartsStates
    /\ partsChanged = FALSE
    /\ calls = <<>>
    /\ errors = <<>>
    /\ failedStage = "none"
    /\ logical_queries = <<>>
    /\ physical_queries = <<>>
    /\ li = 0
    /\ pj = 0
    /\ logical = <<>>
    /\ physical = <<>>
    /\ transformCalled = FALSE
    /\ df1 = <<>>
    /\ df2 = <<>>
    /\ options = {}
    /\ table_filter = {}
    /\ displayed = <<>>

\* from settings import settings: Settings() validates the environment; the
\* import raises when it does not, and run() is never reached
LoadSettings ==
    /\ pc = "import"
    /\ pc' = IF SettingsValidate(env) THEN "connect" ELSE "import_failed"
    /\ UNCHANGED <<env, getClientCalls, client, catalog, parts, partsChanged,
                   calls, errors, failedStage, logical_queries, physical_queries,
                   li, pj, logical, physical, transformCalled, df1, df2, options,
                   table_filter, displayed>>

\* a faulty variant: after a failed attempt a second, unchecked client is used
create_clickhouse_client_fallback ==
    /\ pc = "connect"
    /\ getClientCalls' = getClientCalls + 1
    /\ \E cat \in Catalogs : catalog' = cat
    /\ client' = "open"
    /\ pc' = "make_queries"
    /\ \/ UNCHANGED <<errors, failedStage>>
       \/ /\ errors' = Append(errors, "connect")
          /\ failedStage' = "connect"
    /\ UNCHANGED <<env, parts, partsChanged, calls, logical_queries,
                   physical_queries, li, pj, logical, physical, transformCalled,
                   df1, df2, options, table_filter, displayed>>

\* task = ClickHouseDataExtraction(): __init__ calls create_clickhouse_client.
\* get_client returns a client, connected to a server with some catalog, or
\* raises; the except clause reports and re-raises, which ends run().
create_clickhouse_client ==
    /\ pc = "connect"
    /\ getClientCalls' = getClientCalls + 1
    /\ \/ /\ \E cat \in Catalogs : catalog' = cat
          /\ client' = "open"
          /\ pc' = "make_queries"
          /\ UNCHANGED <<errors, failedStage>>
       \/ /\ errors' = Append(errors, "connect")
          /\ failedStage' = "connect"
          /\ pc' = "aborted"
          /\ UNCHANGED <<client, catalog>>
    /\ UNCHANGED <<env, parts, partsChanged, calls, logical_queries,
                   physical_queries, li, pj, logical, physical, transformCalled,
                   df1, df2, options, table_filter, displayed>>

\* make_queries: two command calls, then the post-processing of both
\* results; whatever raises inside the try is reported and re-raised
make_queries ==
    /\ pc = "make_queries"
    /\ \/ /\ calls' = Append(calls, CommandCall("logical introspection"))
          /\ errors' = Append(errors, "make_queries")
          /\ failedStage' = "make_queries"
          /\ pc' = "aborted"
          /\ UNCHANGED <<logical_queries, physical_queries>>
       \/ /\ calls' = calls \o <<CommandCall("logical introspection"),
                                 CommandCall("physical introspection")>>
          /\ errors' = Append(errors, "make_queries")
          /\ failedStage' = "make_queries"
          /\ pc' = "aborted"
          /\ UNCHANGED <<logical_queries, physical_queries>>
       \/ /\ calls' = calls \o <<CommandCall("logical introspection"),
                                 CommandCall("physical introspection")>>
          /\ \E r1 \in CommandResults(LogicalIntrospection(catalog)),
                r2 \in CommandResults(PhysicalIntrospection(catalog)) :
                IF r1.kind = "str" /\ r2.kind = "str"
                THEN /\ logical_queries' = PostProcess(r1.text)
                     /\ physical_queries' = PostProcess(r2.text)
                     /\ pc' = "extract"
                     /\ UNCHANGED <<errors, failedStage>>
                ELSE \* .replace on a value that is no str: AttributeError
                     /\ errors' = Append(errors, "make_queries")
                     /\ failedStage' = "make_queries"
                     /\ pc' = "aborted"
                     /\ UNCHANGED <<logical_queries, physical_queries>>
    /\ UNCHANGED <<env, getClientCalls, client, catalog, parts, partsChanged,
                   li, pj, logical, physical, transformCalled, df1, df2, options,
                   table_filter, displayed>>

\* a faulty variant: a failed statement is skipped and the loop goes on
extract_logical_skip_failed ==
    /\ pc = "extract"
    /\ li < Len(AllButLast(logical_queries))
    /\ LET query == AllButLast(logical_queries)[li + 1]
       IN /\ calls' = Append(calls, QueryCall(query))
          /\ li' = li + 1
          /\ \E out \in QueryOutcomes(query, catalog, parts) :
                /\ logical' = logical \o out.rows
                /\ failedStage' = IF out.raised THEN "extract" ELSE failedStage
    /\ UNCHANGED <<pc, env, getClientCalls, client, catalog, parts, partsChanged,
                   errors, logical_queries, physical_queries, pj, physical,
                   transformCalled, df1, df2, options, table_filter, displayed>>

\* extract, first loop: one iteration of  for query in logical_queries[:-1]
extract_logical ==
    /\ pc = "extract"
    /\ li < Len(AllButLast(logical_queries))
    /\ LET query == AllButLast(logical_queries)[li + 1]
       IN /\ calls' = Append(calls, QueryCall(query))
          /\ \E out \in QueryOutcomes(query, catalog, parts) :
                IF out.raised
                THEN /\ failedStage' = "extract"
                     /\ pc' = "aborted"
                     /\ UNCHANGED <<logical, li>>
                ELSE /\ logical' = logical \o out.rows
                     /\ li' = li + 1
                     /\ UNCHANGED <<pc, failedStage>>
    /\ UNCHANGED <<env, getClientCalls, client, catalog, parts, partsChanged,
                   errors, logical_queries, physical_queries, pj, physical,
                   transformCalled, df1, df2, options, table_filter, displayed>>

\* a faulty variant: the second loop does not wait for the first to end
extract_physical_early ==
    /\ pc = "extract"
    /\ pj < Len(AllButLast(physical_queries))
    /\ LET query == AllButLast(physical_queries)[pj + 1]
       IN /\ calls' = Append(calls, QueryCall(query))
          /\ \E out \in QueryOutcomes(query, catalog, parts) :
                IF out.raised
                THEN /\ failedStage' = "extract"
                     /\ pc' = "aborted"
                     /\ UNCHANGED <<physical, pj>>
                ELSE /\ physical' = physical \o out.rows
                     /\ pj' = pj + 1
                     /\ UNCHANGED <<pc, failedStage>>
    /\ UNCHANGED <<env, getClientCalls, client, catalog, parts, partsChanged,
                   errors, logical_queries, physical_queries, li, logical,
                   transformCalled, df1, df2, options, table_filter, displayed>>

\* extract, second loop: one iteration of  for query in physical_queries[:-1]
extract_physical ==
    /\ pc = "extract"
    /\ li = Len(AllButLast(logical_queries))
    /\ pj < Len(AllButLast(physical_queries))
    /\ LET query == AllButLast(physical_queries)[pj + 1]
       IN /\ calls' = Append(calls, QueryCall(query))
          /\ \E out \in QueryOutcomes(query, catalog, parts) :
                IF out.raised
                THEN /\ failedStage' = "extract"
                     /\ pc' = "aborted"
                     /\ UNCHANGED <<physical, pj>>
                ELSE /\ physical' = physical \o out.rows
                     /\ pj' = pj + 1
                     /\ UNCHANGED <<pc, failedStage>>
    /\ UNCHANGED <<env, getClientCalls, client, catalog, parts, partsChanged,
                   errors, logical_queries, physical_queries, li, logical,
                   transformCalled, df1, df2, options, table_filter, displayed>>

\* Another client of the server writes or merges parts while extract runs.
PartsChange ==
    /\ pc = "extract"
    /\ ~partsChanged
    /\ \E p \in PartsStates \ {parts} : parts' = p
    /\ partsChanged' = TRUE
    /\ UNCHANGED <<pc, env, getClientCalls, client, catalog, calls, errors,
                   failedStage, logical_queries, physical_queries, li, pj,
                   logical, physical, transformCalled, df1, df2, options,
                   table_filter, displayed>>

\* extract returns its accumulators and run() hands them to transform:
\* pl.DataFrame binds the rows in order to the schema's columns, or, given
\* rows, raises (a value of a type its column's dtype does not take, such
\* as the float bound to the Utf8 column "Physical Compression"); nothing
\* in transform or run catches that.
transform ==
    /\ pc = "extract"
    /\ li = Len(AllButLast(logical_queries))
    /\ pj = Len(AllButLast(physical_queries))
    /\ transformCalled' = TRUE
    /\ \/ /\ df1' = logical
          /\ df2' = physical
          /\ pc' = "present"
          /\ UNCHANGED failedStage
       \/ /\ logical # <<>> \/ physical # <<>>
          /\ failedStage' = "transform"
          /\ pc' = "aborted"
          /\ UNCHANGED <<df1, df2>>
    /\ UNCHANGED <<env, getClientCalls, client, catalog, parts, partsChanged,
                   calls, errors, logical_queries, physical_queries, li, pj,
                   logical, physical, options, table_filter, displayed>>

\* a faulty variant: the selection is applied to the logical data only
present_physical_unfiltered ==
    /\ pc = "present"
    /\ options' = UniqueTables(df1)
    /\ \E selection \in SUBSET UniqueTables(df1) :
          /\ table_filter' = selection
          /\ displayed' = <<FilterIsIn(df1, selection), df2>>
    /\ pc' = "done"
    /\ UNCHANGED <<env, getClientCalls, client, catalog, parts, partsChanged,
                   calls, errors, failedStage, logical_queries, physical_queries,
                   li, pj, logical, physical, transformCalled, df1, df2>>

\* run(), from st.title on: the multiselect offers the distinct tables of
\* df1 and returns the user's selection (all of them by default); both data
\* frames are filtered by it and displayed
present ==
    /\ pc = "present"
    /\ options' = UniqueTables(df1)
    /\ \E selection \in SUBSET UniqueTables(df1) :
          /\ table_filter' = selection
          /\ displayed' = <<FilterIsIn(df1, selection), FilterIsIn(df2, selection)>>
    /\ pc' = "done"
    /\ UNCHANGED <<env, getClientCalls, client, catalog, parts, partsChanged,
                   calls, errors, failedStage, logical_queries, physical_queries,
                   li, pj, logical, physical, transformCalled, df1, df2>>

Next ==
    \/ LoadSettings
    \/ create_clickhouse_client
    \/ make_queries
    \/ extract_logical
    \/ extract_physical
    \/ PartsChange
    \/ transform
    \/ present

Spec == Init /\ [][Next]_vars

----------------------------------------------------------------------------
(* Properties *)

IntFields == {"clickhouse_batch_size", "clickhouse_port"}

\* make_queries has returned its two lists
QueriesGenerated == pc \in {"extract", "present", "done"} \/ failedStage \in {"extract", "transform"}

\* a name ends in M or m followed by V or v
EndsInMV(name) ==
    /\ Len(name) >= 2
    /\ name[Len(name) - 1] \in {"M", "m"}
    /\ name[Len(name)] \in {"V", "v"}

\* the tables of 'default' that do not end in MV, in catalog order
Eligible == SelectSeq(catalog, LAMBDA name : ~EndsInMV(name))

\* the statement meant for one table, without its terminator
LogicalStatementFor(name) ==
    <<"SELECT ", QUOTE>> \o name \o <<QUOTE, LogicalColumns>> \o name

PhysicalStatementFor(name) ==
    <<"SELECT ", QUOTE>> \o name \o <<QUOTE, PhysicalColumns>>

\* the statements handed to client.query so far
QueryArgs ==
    LET queries == SelectSeq(calls, LAMBDA c : c.op = "query")
    IN [i \in 1..Len(queries) |-> queries[i].arg]

\* C1: when get_client raises, the run ends there: no command call, no query
\* call, no query list, no transform and nothing displayed.
C1_ConnectFailureStopsRun ==
    failedStage = "connect" =>
        /\ pc = "aborted"
        /\ calls = <<>>
        /\ logical_queries = <<>> /\ physical_queries = <<>>
        /\ ~transformCalled
        /\ displayed = <<>>

C1_Witness == failedStage = "connect" /\ getClientCalls = 1 /\ errors = <<"connect">>

\* C2: once make_queries has returned, the statements extract will execute
\* (every segment but the last) are exactly one logical and one physical
\* statement per table not ending in MV, in catalog order, each embedding
\* that table's name, and every statement sent to the server is one of them.
C2_OneStatementPerEligibleTable ==
    QueriesGenerated =>
        /\ AllButLast(logical_queries) =
               [i \in 1..Len(Eligible) |-> LogicalStatementFor(Eligible[i])]
        /\ AllButLast(physical_queries) =
               [i \in 1..Len(Eligible) |-> PhysicalStatementFor(Eligible[i])]
        /\ \A i \in 1..Len(QueryArgs) :
               \E k \in 1..Len(Eligible) :
                   QueryArgs[i] \in {LogicalStatementFor(Eligible[k]),
                                     PhysicalStatementFor(Eligible[k])}

\* C3: once make_queries has returned, each list has exactly one segment
\* more than there are eligible tables, its last segment is empty, and no
\* empty statement and no more than N statements per set are sent.
C3_SplitYieldsOneMoreThanTables ==
    QueriesGenerated =>
        /\ Len(logical_queries) = Len(Eligible) + 1
        /\ Len(physical_queries) = Len(Eligible) + 1
        /\ logical_queries[Len(logical_queries)] = <<>>
        /\ physical_queries[Len(physical_queries)] = <<>>
        /\ \A i \in 1..Len(QueryArgs) : QueryArgs[i] # <<>>
        /\ li <= Len(Eligible) /\ pj <= Len(Eligible)

C5_FilterSameOnBoth ==
    pc = "done" =>
        /\ Len(displayed) = 2
        /\ \A k \in 1..2 :
              LET df == IF k = 1 THEN df1 ELSE df2
                  kept == {i \in 1..Len(df) : df[i].Table \in table_filter}
              IN /\ Len(displayed[k]) = Cardinality(kept)
                 /\ \A i \in 1..Len(displayed[k]) : displayed[k][i].Table \in table_filter
                 /\ table_filter = options => displayed[k] = df
                 /\ table_filter = {} => displayed[k] = <<>>
                 /\ FilterIsIn(displayed[k], table_filter) = displayed[k]

C5_Witness ==
    /\ pc = "done"
    /\ Len(df1) >= 2 /\ Len(df2) >= 2
    /\ table_filter = options
    /\ displayed = <<df1, df2>>

\* C6: when a client.query call raises, the run ends there: the failed
\* statement is the last call made and was sent once, the statements after it
\* in either set are never sent, transform is not called, no report table
\* exists and nothing is displayed.
C6_StatementFailureAbortsAll ==
    failedStage = "extract" =>
        /\ pc = "aborted"
        /\ ~transformCalled
        /\ df1 = <<>> /\ df2 = <<>>
        /\ displayed = <<>>
        /\ Len(QueryArgs) = li + pj + 1
        /\ QueryArgs =
              SubSeq(AllButLast(logical_queries) \o AllButLast(physical_queries),
                     1, li + pj + 1)
        /\ li < Len(AllButLast(logical_queries)) => pj = 0

C6_Witness ==
    /\ failedStage = "extract"
    /\ li = 1
    /\ Len(AllButLast(logical_queries)) >= 2
    /\ Len(QueryArgs) = 2

\* C7: whenever a stage's call has raised, an error message for that stage
\* has been emitted.
C7_EveryStageReportsItsFailure ==
    failedStage # "none" => \E i \in 1..Len(errors) : errors[i] = failedStage

\* C8: when a required setting is missing, or an integer setting holds no
\* integer, the import fails: get_client is never called and no database
\* call is made.
C8_InvalidSettingsNoConnection ==
    (\E f \in Fields : env[f] = "missing" \/ (f \in IntFields /\ env[f] # "digits")) =>
        /\ pc \in {"import", "import_failed"}
        /\ getClientCalls = 0
        /\ client = "none"
        /\ calls = <<>>

C8_Witness ==
    /\ pc = "import_failed"
    /\ env["clickhouse_port"] = "text"
    /\ \A f \in Fields \ {"clickhouse_port"} : env[f] # "missing"

\* C9: the database calls of a run are, in this order, a prefix of: logical
\* introspection, physical introspection, the logical statements in list
\* order, the physical statements in list order; all on the one client
\* opened; row i of each accumulator is the row of statement i; no physical
\* statement is sent before every logical statement has completed.
C9_CallsSequentialInOrder ==
    LET expected ==
            <<CommandCall("logical introspection"), CommandCall("physical introspection")>>
            \o [i \in 1..Len(AllButLast(logical_queries)) |->
                    QueryCall(AllButLast(logical_queries)[i])]
            \o [i \in 1..Len(AllButLast(physical_queries)) |->
                    QueryCall(AllButLast(physical_queries)[i])]
    IN /\ getClientCalls <= 1
       /\ calls # <<>> => getClientCalls = 1 /\ client = "open"
       /\ Len(calls) <= Len(expected)
       /\ calls = SubSeq(expected, 1, Len(calls))
       /\ Len(logical) = li /\ Len(physical) = pj
       /\ \A i \in 1..Len(logical) :
              logical[i].Table = StatementLiteral(AllButLast(logical_queries)[i])
       /\ \A i \in 1..Len(physical) :
              physical[i].Table = StatementLiteral(AllButLast(physical_queries)[i])
       /\ Len(QueryArgs) > Len(AllButLast(logical_queries)) =>
              li = Len(AllButLast(logical_queries))

C9_Witness ==
    /\ pc = "done"
    /\ Len(logical) >= 2 /\ Len(physical) >= 2
    /\ Len(calls) = 2 + Len(logical) + Len(physical)

\* C10: while system.parts has not changed during extract, all rows of the
\* physical accumulator and of the physical report carry the same Compressed
\* Size, Uncompressed Size, Ratio and Physical Compression: the aggregates
\* over all of system.parts.
C10_PhysicalRowsIdentical ==
    ~partsChanged =>
        /\ \A i \in 1..Len(physical) :
              /\ physical[i].CompressedSize = PartsTotal(parts)[1]
              /\ physical[i].UncompressedSize = PartsTotal(parts)[2]
        /\ \A i, j \in 1..Len(physical) :
              /\ physical[i].CompressedSize = physical[j].CompressedSize
              /\ physical[i].UncompressedSize = physical[j].UncompressedSize
              /\ physical[i].Ratio = physical[j].Ratio
              /\ physical[i].PhysicalCompression = physical[j].PhysicalCompression
        /\ df2 \in {<<>>, physical}

C10_Witness ==
    /\ pc = "done"
    /\ ~partsChanged
    /\ Len(df2) >= 2
    /\ df2[1].Table # df2[2].Table
    /\ df2[1].Ratio = df2[2].Ratio

====
